---- MODULE Spec2Model ----
(***************************************************************************)
(* Markdown Furigana Plus: the furigana() function of src/main.ts and the  *)
(* functions it calls (bodyToRegex, matchFurigana, cleanFurigana,          *)
(* rubifyEveryCharacter, FuriganaOptions).                                 *)
(*                                                                         *)
(* A character is its UTF-16 code unit (an integer), a string is a         *)
(* sequence of characters.  A regular expression is the sequence of the    *)
(* pieces bodyToRegex concatenates into regexStr; RegExpExec runs it the   *)
(* way a backtracking engine does (greedy, leftmost alternative first).    *)
(***************************************************************************)
EXTENDS Integers, Sequences, FiniteSets, TLC

VARIABLES body, toptext, wanted, options, pc, out

vars == <<body, toptext, wanted, options, pc, out>>

----------------------------------------------------------------------------
(* Characters with a role in the code.                                     *)

DOT == 46
PLUS == 43
EQUALS == 61
FW_EQUALS == 65309
ASTERISK == 42
FW_ASTERISK == 65290
BLACK_CIRCLE == 9679
FW_DOT == 65294
IDEOGRAPHIC_STOP == 12290
MIDDLE_DOT == 12539
VBAR == 124
FW_VBAR == 65372
SLASH == 47
FW_SLASH == 65295
FW_PLUS == 65291
UNDERSCORE == 95
HYPHEN == 45
RBRACKET == 93
BACKSLASH == 92
LPAREN == 40
RPAREN == 41
LONG_VOWEL == 12540

\* What JavaScript's \s matches (WhiteSpace and LineTerminator).
WhiteSpace ==
  {9, 10, 11, 12, 13, 32, 160, 5760, 8232, 8233, 8239, 8287, 12288, 65279}
    \cup (8192..8202)

\* The value of reading an array element that does not exist.  It is kept as
\* a one-character pseudo string so that `x += undefined` stays a sequence.
Undefined == <<-1>>

----------------------------------------------------------------------------
(* kanaRegex and kanjiRegex.                                               *)

IsKana(c) ==
  \/ c >= 12352 /\ c <= 12438
  \/ c >= 12449 /\ c <= 12538
  \/ c >= 65382 /\ c <= 65439
  \/ c = LONG_VOWEL

IsKanji(c) == c >= 13312 /\ c <= 40879

----------------------------------------------------------------------------
(* bodyToRegex.  regexStr is kept as the sequence of the pieces appended   *)
(* to it; a literal character is a piece of its own.                       *)

Piece(t) == [t |-> t, c |-> 0]
Literal(c) == [t |-> "lit", c |-> c]

combinatorOrSeparatorGroup == Piece("([+.]?)")
combinatorOrSeparator == Piece("[+.]?")
combinatorOnly == Piece("\\.?")
furiganaGroup == Piece("([^+.]+)")

\* BodyToRegexStep with `lastType !== "other"` for `lastType == "kanji"` in
\* the kana branch: an optional mark between two kana as well.
BodyToRegexStepKanaMarks(st, c) ==
  IF IsKanji(c)
    THEN [regexStr |-> st.regexStr
                        \o (IF st.lastType = "kanji"
                              THEN <<combinatorOrSeparatorGroup>>
                              ELSE IF st.lastType = "kana"
                                     THEN <<combinatorOrSeparator>>
                                     ELSE <<>>)
                        \o <<furiganaGroup>>,
          lastType |-> "kanji"]
    ELSE IF IsKana(c)
      THEN [regexStr |-> st.regexStr
                          \o (IF st.lastType # "other"
                                THEN <<combinatorOrSeparator>>
                                ELSE <<>>)
                          \o <<Literal(c)>>,
            lastType |-> "kana"]
      ELSE [regexStr |-> st.regexStr
                          \o (IF st.lastType # "other"
                                THEN <<combinatorOnly>>
                                ELSE <<>>),
            lastType |-> "other"]

\* BodyToRegexStep appending the other characters to regexStr as the kana.
BodyToRegexStepOtherLiteral(st, c) ==
  IF IsKanji(c)
    THEN [regexStr |-> st.regexStr
                        \o (IF st.lastType = "kanji"
                              THEN <<combinatorOrSeparatorGroup>>
                              ELSE IF st.lastType = "kana"
                                     THEN <<combinatorOrSeparator>>
                                     ELSE <<>>)
                        \o <<furiganaGroup>>,
          lastType |-> "kanji"]
    ELSE IF IsKana(c)
      THEN [regexStr |-> st.regexStr
                          \o (IF st.lastType = "kanji"
                                THEN <<combinatorOrSeparator>>
                                ELSE <<>>)
                          \o <<Literal(c)>>,
            lastType |-> "kana"]
      ELSE [regexStr |-> st.regexStr
                          \o (IF st.lastType # "other"
                                THEN <<combinatorOnly>>
                                ELSE <<>>)
                          \o <<Literal(c)>>,
            lastType |-> "other"]

\* One iteration of the for loop of bodyToRegex.
BodyToRegexStep(st, c) ==
  IF IsKanji(c)
    THEN [regexStr |-> st.regexStr
                        \o (IF st.lastType = "kanji"
                              THEN <<combinatorOrSeparatorGroup>>
                              ELSE IF st.lastType = "kana"
                                     THEN <<combinatorOrSeparator>>
                                     ELSE <<>>)
                        \o <<furiganaGroup>>,
          lastType |-> "kanji"]
    ELSE IF IsKana(c)
      THEN [regexStr |-> st.regexStr
                          \o (IF st.lastType = "kanji"
                                THEN <<combinatorOrSeparator>>
                                ELSE <<>>)
                          \o <<Literal(c)>>,
            lastType |-> "kana"]
      ELSE [regexStr |-> st.regexStr
                          \o (IF st.lastType # "other"
                                THEN <<combinatorOnly>>
                                ELSE <<>>),
            lastType |-> "other"]

\* regexStr and lastType before the loop.
BodyToRegexInit == [regexStr |-> <<Piece("^")>>, lastType |-> "other"]

RECURSIVE BodyToRegexLoop(_, _, _)
BodyToRegexLoop(b, i, st) ==
  IF i > Len(b) THEN st
  ELSE BodyToRegexLoop(b, i + 1, BodyToRegexStep(st, b[i]))

\* new RegExp(source): a SyntaxError when a literal parenthesis of the source
\* is left unbalanced (every other piece is balanced on its own).
RECURSIVE ParenDepthOk(_, _, _)
ParenDepthOk(src, i, depth) ==
  IF i > Len(src) THEN depth = 0
  ELSE IF src[i].t = "lit" /\ src[i].c = LPAREN
         THEN ParenDepthOk(src, i + 1, depth + 1)
       ELSE IF src[i].t = "lit" /\ src[i].c = RPAREN
         THEN depth > 0 /\ ParenDepthOk(src, i + 1, depth - 1)
       ELSE ParenDepthOk(src, i + 1, depth)

NewRegExp(src) == [source |-> src, syntaxError |-> ~ParenDepthOk(src, 1, 0)]

\* bodyToRegex(body): null, or the regular expression.  regexStr starts as
\* "^", so the test regexStr === "" never succeeds.
BodyToRegex(b) ==
  LET st == BodyToRegexLoop(b, 1, BodyToRegexInit)
  IN IF st.regexStr = <<>>
       THEN [null |-> TRUE, source |-> <<>>, syntaxError |-> FALSE]
       ELSE [null |-> FALSE] @@ NewRegExp(st.regexStr \o <<Piece("$")>>)

----------------------------------------------------------------------------
(* RegExp.prototype.exec for the regular expressions bodyToRegex builds.   *)
(* MatchFrom gives, for the pieces from p on and the input from j on, the  *)
(* text each piece consumes in the first match a backtracking engine       *)
(* finds: an optional piece first tries to take its character, a           *)
(* ([^+.]+) group first tries the longest run.                             *)

NoMatch == [ok |-> FALSE, parts |-> <<>>]

Then(x, r) == IF r.ok THEN [ok |-> TRUE, parts |-> <<x>> \o r.parts] ELSE NoMatch

\* The characters an optional piece accepts.
Accepts(t) ==
  CASE t = "([+.]?)" -> {PLUS, DOT}
    [] t = "[+.]?" -> {PLUS, DOT}
    [] t = "\\.?" -> {DOT}
    [] OTHER -> {}

\* RunLen for the class `[^.]`: a run that '+' does not end.
RECURSIVE RunLenAcrossPlus(_, _)
RunLenAcrossPlus(s, j) ==
  IF j > Len(s) \/ s[j] = DOT THEN 0 ELSE 1 + RunLenAcrossPlus(s, j + 1)

\* Length of the run of characters other than '+' and '.' starting at s[j].
RECURSIVE RunLen(_, _)
RunLen(s, j) ==
  IF j > Len(s) \/ s[j] \in {PLUS, DOT} THEN 0 ELSE 1 + RunLen(s, j + 1)

RECURSIVE MatchFrom(_, _, _, _)
RECURSIVE TryLen(_, _, _, _, _)

RECURSIVE TryLenShortestFirst(_, _, _, _, _)
\* TryLen for a lazy quantifier, `([^+.]+?)`: the shortest text first.
TryLenShortestFirst(re, p, s, j, k) ==
  IF k < 1 THEN NoMatch
  ELSE LET shorter == TryLenShortestFirst(re, p, s, j, k - 1)
       IN IF shorter.ok THEN shorter
          ELSE Then(SubSeq(s, j, j + k - 1), MatchFrom(re, p + 1, s, j + k))

\* The greedy quantifier of `([^+.]+)` at piece p: the longest text first,
\* at most k characters, one character less on each backtrack.
TryLen(re, p, s, j, k) ==
  IF k < 1 THEN NoMatch
  ELSE LET r == Then(SubSeq(s, j, j + k - 1), MatchFrom(re, p + 1, s, j + k))
       IN IF r.ok THEN r ELSE TryLen(re, p, s, j, k - 1)

MatchFrom(re, p, s, j) ==
  IF p > Len(re) THEN [ok |-> TRUE, parts |-> <<>>]
  ELSE LET t == re[p].t IN
    CASE t = "^" ->
           IF j = 1 THEN Then(<<>>, MatchFrom(re, p + 1, s, j)) ELSE NoMatch
      [] t = "$" ->
           IF j = Len(s) + 1 THEN Then(<<>>, MatchFrom(re, p + 1, s, j))
           ELSE NoMatch
      [] t = "lit" ->
           IF j <= Len(s) /\ s[j] = re[p].c
             THEN Then(<<s[j]>>, MatchFrom(re, p + 1, s, j + 1))
             ELSE NoMatch
      [] t = "([^+.]+)" -> TryLen(re, p, s, j, RunLen(s, j))
      [] OTHER ->
           LET taken == IF j <= Len(s) /\ s[j] \in Accepts(t)
                          THEN Then(<<s[j]>>, MatchFrom(re, p + 1, s, j + 1))
                          ELSE NoMatch
           IN IF taken.ok THEN taken
              ELSE Then(<<>>, MatchFrom(re, p + 1, s, j))

IsGroup(piece) == piece.t \in {"([+.]?)", "([^+.]+)"}

\* The capturing pieces' texts, in order: match[1], match[2], ...
RECURSIVE GroupsOf(_, _, _)
GroupsOf(re, parts, p) ==
  IF p > Len(re) THEN <<>>
  ELSE (IF IsGroup(re[p]) THEN <<parts[p]>> ELSE <<>>)
         \o GroupsOf(re, parts, p + 1)

\* regex.exec(s): null, or the match array (groups[k] is match[k]); parts
\* keeps what every piece consumed.
RegExpExec(regex, s) ==
  LET m == MatchFrom(regex.source, 1, s, 1)
  IN IF m.ok
       THEN [null |-> FALSE, groups |-> GroupsOf(regex.source, m.parts, 1),
             parts |-> m.parts]
       ELSE [null |-> TRUE, groups |-> <<>>, parts |-> <<>>]

----------------------------------------------------------------------------
(* FuriganaOptions and cleanFurigana.                                      *)

\* str.replace(/([\-\]\\])/g, "\\$1")
RECURSIVE EscapeForClass(_)
EscapeForClass(str) ==
  IF str = <<>> THEN <<>>
  ELSE (IF Head(str) \in {HYPHEN, RBRACKET, BACKSLASH}
          THEN <<BACKSLASH, Head(str)>> ELSE <<Head(str)>>)
         \o EscapeForClass(Tail(str))

\* The characters a piece of a character class written by EscapeForClass
\* stands for: a backslash makes the next character a member.
RECURSIVE ClassMembers(_)
ClassMembers(str) ==
  IF str = <<>> THEN {}
  ELSE IF Head(str) = BACKSLASH /\ Len(str) >= 2
         THEN {str[2]} \cup ClassMembers(Tail(Tail(str)))
         ELSE {Head(str)} \cup ClassMembers(Tail(str))

HardCodedSeparators ==
  WhiteSpace \cup {DOT, FW_DOT, IDEOGRAPHIC_STOP, MIDDLE_DOT, VBAR, FW_VBAR,
                   SLASH, FW_SLASH}

HardCodedCombinators == {PLUS, FW_PLUS}

\* new FuriganaOptions(): args is what the caller wants as extra separators
\* and combinators.  The constructor takes no argument: extraSeparators is
\* built from "" and extraCombinators from the still undefined field.
NewFuriganaOptions(args) ==
  LET seps == EscapeForClass(<<>>)
      combs == EscapeForClass(<<>>)
  IN [extraSeparators |-> seps,
      extraCombinators |-> combs,
      separatorRegex |-> HardCodedSeparators \cup ClassMembers(seps),
      combinatorRegex |-> HardCodedCombinators \cup ClassMembers(combs)]

\* str.replace(/[set]/g, by)
ReplaceAll(str, set, by) ==
  [k \in 1..Len(str) |-> IF str[k] \in set THEN by ELSE str[k]]

\* cleanFurigana without its first replacement.
CleanFuriganaCombinatorsOnly(furi, opts) ==
  ReplaceAll(furi, opts.combinatorRegex, PLUS)

CleanFurigana(furi, opts) ==
  ReplaceAll(ReplaceAll(furi, opts.separatorRegex, DOT),
             opts.combinatorRegex, PLUS)

----------------------------------------------------------------------------
(* matchFurigana.                                                          *)

\* match[k]: undefined when the match array has no such element.
GroupAt(match, k) ==
  IF k >= 1 /\ k <= Len(match.groups) THEN match.groups[k] ELSE Undefined

Defined(match, k) == k >= 1 /\ k <= Len(match.groups)

\* One read of match[k] by the loop: as `connection` or as a reading.
Read(k, as) == [k |-> k, as |-> as]

\* LoopInit with the cursor on match[0], the whole match.
LoopInitFromZero ==
  [result |-> <<>>, curBodyPart |-> <<>>, curToptextPart |-> <<>>,
   matchIndex |-> 0, lastType |-> "other", undefinedRead |-> FALSE,
   reads |-> <<>>]

\* The loop variables before the first iteration; reads is the history of
\* the reads of match[matchIndex++], in the order they were made.
LoopInit ==
  [result |-> <<>>, curBodyPart |-> <<>>, curToptextPart |-> <<>>,
   matchIndex |-> 1, lastType |-> "other", undefinedRead |-> FALSE,
   reads |-> <<>>]

\* MatchFuriganaStep with `curBodyPart = c` for `curBodyPart += c` in the
\* run of non-kanji characters.
MatchFuriganaStepOverwrite(st, c, match) ==
  IF IsKanji(c)
    THEN IF st.lastType = "kana" \/ st.lastType = "other"
      THEN [st EXCEPT
              !.result = IF st.curBodyPart # <<>>
                           THEN Append(@, <<st.curBodyPart, st.curToptextPart>>)
                           ELSE @,
              !.curBodyPart = <<c>>,
              !.curToptextPart = GroupAt(match, st.matchIndex),
              !.matchIndex = @ + 1,
              !.reads = Append(@, Read(st.matchIndex, "furi")),
              !.lastType = "kanji"]
      ELSE LET connection == GroupAt(match, st.matchIndex)
               furi == GroupAt(match, st.matchIndex + 1)
           IN IF connection = <<PLUS>> \/ connection = <<>>
                THEN [st EXCEPT
                        !.curBodyPart = @ \o <<c>>,
                        !.curToptextPart = @ \o furi,
                        !.matchIndex = @ + 2]
                ELSE [st EXCEPT
                        !.result = Append(@, <<st.curBodyPart,
                                               st.curToptextPart>>),
                        !.curBodyPart = <<c>>,
                        !.curToptextPart = furi,
                        !.matchIndex = @ + 2]
    ELSE IF st.lastType # "kanji"
      THEN [st EXCEPT !.curBodyPart = <<c>>]
      ELSE [st EXCEPT
              !.result = Append(@, <<st.curBodyPart, st.curToptextPart>>),
              !.curBodyPart = <<c>>,
              !.curToptextPart = <<>>,
              !.lastType = IF IsKana(c) THEN "kana" ELSE "other"]

\* MatchFuriganaStep with the test on connection taking '.' for '+'.
MatchFuriganaStepDotMerges(st, c, match) ==
  IF IsKanji(c)
    THEN IF st.lastType = "kana" \/ st.lastType = "other"
      THEN [st EXCEPT
              !.result = IF st.curBodyPart # <<>>
                           THEN Append(@, <<st.curBodyPart, st.curToptextPart>>)
                           ELSE @,
              !.curBodyPart = <<c>>,
              !.curToptextPart = GroupAt(match, st.matchIndex),
              !.matchIndex = @ + 1,
              !.reads = Append(@, Read(st.matchIndex, "furi")),
              !.lastType = "kanji"]
      ELSE LET connection == GroupAt(match, st.matchIndex)
               furi == GroupAt(match, st.matchIndex + 1)
           IN IF connection = <<DOT>> \/ connection = <<>>
                THEN [st EXCEPT
                        !.curBodyPart = @ \o <<c>>,
                        !.curToptextPart = @ \o furi,
                        !.matchIndex = @ + 2]
                ELSE [st EXCEPT
                        !.result = Append(@, <<st.curBodyPart,
                                               st.curToptextPart>>),
                        !.curBodyPart = <<c>>,
                        !.curToptextPart = furi,
                        !.matchIndex = @ + 2]
    ELSE IF st.lastType # "kanji"
      THEN [st EXCEPT !.curBodyPart = @ \o <<c>>]
      ELSE [st EXCEPT
              !.result = Append(@, <<st.curBodyPart, st.curToptextPart>>),
              !.curBodyPart = <<c>>,
              !.curToptextPart = <<>>,
              !.lastType = IF IsKana(c) THEN "kana" ELSE "other"]

\* MatchFuriganaStep without the push at a non-kanji character after a
\* kanji: the character joins the pair of the kanji.
MatchFuriganaStepNoPush(st, c, match) ==
  IF IsKanji(c)
    THEN IF st.lastType = "kana" \/ st.lastType = "other"
      THEN [st EXCEPT
              !.result = IF st.curBodyPart # <<>>
                           THEN Append(@, <<st.curBodyPart, st.curToptextPart>>)
                           ELSE @,
              !.curBodyPart = <<c>>,
              !.curToptextPart = GroupAt(match, st.matchIndex),
              !.matchIndex = @ + 1,
              !.reads = Append(@, Read(st.matchIndex, "furi")),
              !.lastType = "kanji",
              !.undefinedRead = @ \/ ~Defined(match, st.matchIndex)]
      ELSE LET connection == GroupAt(match, st.matchIndex)
               furi == GroupAt(match, st.matchIndex + 1)
               undef == \/ st.undefinedRead
                        \/ ~Defined(match, st.matchIndex)
                        \/ ~Defined(match, st.matchIndex + 1)
           IN IF connection = <<PLUS>> \/ connection = <<>>
                THEN [st EXCEPT
                        !.curBodyPart = @ \o <<c>>,
                        !.curToptextPart = @ \o furi,
                        !.matchIndex = @ + 2,
                        !.reads = @ \o <<Read(st.matchIndex, "connection"),
                                          Read(st.matchIndex + 1, "furi")>>,
                        !.undefinedRead = undef]
                ELSE [st EXCEPT
                        !.result = Append(@, <<st.curBodyPart,
                                               st.curToptextPart>>),
                        !.curBodyPart = <<c>>,
                        !.curToptextPart = furi,
                        !.matchIndex = @ + 2,
                        !.reads = @ \o <<Read(st.matchIndex, "connection"),
                                          Read(st.matchIndex + 1, "furi")>>,
                        !.undefinedRead = undef]
    ELSE [st EXCEPT !.curBodyPart = @ \o <<c>>,
                    !.lastType = IF IsKana(c) THEN "kana" ELSE "other"]

\* One iteration of the reconstruction loop of matchFurigana on character c.
MatchFuriganaStep(st, c, match) ==
  IF IsKanji(c)
    THEN IF st.lastType = "kana" \/ st.lastType = "other"
      THEN [st EXCEPT
              !.result = IF st.curBodyPart # <<>>
                           THEN Append(@, <<st.curBodyPart, st.curToptextPart>>)
                           ELSE @,
              !.curBodyPart = <<c>>,
              !.curToptextPart = GroupAt(match, st.matchIndex),
              !.matchIndex = @ + 1,
              !.reads = Append(@, Read(st.matchIndex, "furi")),
              !.lastType = "kanji",
              !.undefinedRead = @ \/ ~Defined(match, st.matchIndex)]
      ELSE LET connection == GroupAt(match, st.matchIndex)
               furi == GroupAt(match, st.matchIndex + 1)
               undef == \/ st.undefinedRead
                        \/ ~Defined(match, st.matchIndex)
                        \/ ~Defined(match, st.matchIndex + 1)
           IN IF connection = <<PLUS>> \/ connection = <<>>
                THEN [st EXCEPT
                        !.curBodyPart = @ \o <<c>>,
                        !.curToptextPart = @ \o furi,
                        !.matchIndex = @ + 2,
                        !.reads = @ \o <<Read(st.matchIndex, "connection"),
                                          Read(st.matchIndex + 1, "furi")>>,
                        !.undefinedRead = undef]
                ELSE [st EXCEPT
                        !.result = Append(@, <<st.curBodyPart,
                                               st.curToptextPart>>),
                        !.curBodyPart = <<c>>,
                        !.curToptextPart = furi,
                        !.matchIndex = @ + 2,
                        !.reads = @ \o <<Read(st.matchIndex, "connection"),
                                          Read(st.matchIndex + 1, "furi")>>,
                        !.undefinedRead = undef]
    ELSE IF st.lastType # "kanji"
      THEN [st EXCEPT !.curBodyPart = @ \o <<c>>]
      ELSE [st EXCEPT
              !.result = Append(@, <<st.curBodyPart, st.curToptextPart>>),
              !.curBodyPart = <<c>>,
              !.curToptextPart = <<>>,
              !.lastType = IF IsKana(c) THEN "kana" ELSE "other"]

RECURSIVE MatchFuriganaLoop(_, _, _, _)
MatchFuriganaLoop(b, i, st, match) ==
  IF i > Len(b) THEN st
  ELSE MatchFuriganaLoop(b, i + 1, MatchFuriganaStep(st, b[i], match), match)

\* What a call returns: the pairs, or the error it threw; via names the
\* return statement taken, undefinedRead says whether an undefined array
\* element was read on the way.
Returned(pairs, via, undef) ==
  [pairs |-> pairs, threw |-> "", via |-> via, undefinedRead |-> undef]

Thrown(error) ==
  [pairs |-> <<>>, threw |-> error, via |-> "throw", undefinedRead |-> FALSE]

\* MatchFurigana returning the cleaned reading when nothing matches.
MatchFuriganaCleanFallback(b, top, opts) ==
  IF top # <<>> /\ top[1] \in {EQUALS, FW_EQUALS}
    THEN Returned(<< <<b, Tail(top)>> >>, "disabled", FALSE)
  ELSE LET bodyRegex == BodyToRegex(b) IN
    IF bodyRegex.null THEN Returned(<< <<b, top>> >>, "nopattern", FALSE)
    ELSE IF bodyRegex.syntaxError THEN Thrown("SyntaxError")
    ELSE LET match == RegExpExec(bodyRegex, CleanFurigana(top, opts)) IN
      IF match.null
        THEN Returned(<< <<b, CleanFurigana(top, opts)>> >>, "nomatch", FALSE)
      ELSE LET st == MatchFuriganaLoop(b, 1, LoopInit, match)
           IN Returned(Append(st.result, <<st.curBodyPart, st.curToptextPart>>),
                       "match", st.undefinedRead)

\* MatchFurigana cleaning the reading of a disabled match as well.
MatchFuriganaCleanDisabled(b, top, opts) ==
  IF top # <<>> /\ top[1] \in {EQUALS, FW_EQUALS}
    THEN Returned(<< <<b, CleanFurigana(Tail(top), opts)>> >>, "disabled", FALSE)
  ELSE LET bodyRegex == BodyToRegex(b) IN
    IF bodyRegex.null THEN Returned(<< <<b, top>> >>, "nopattern", FALSE)
    ELSE IF bodyRegex.syntaxError THEN Thrown("SyntaxError")
    ELSE LET match == RegExpExec(bodyRegex, CleanFurigana(top, opts)) IN
      IF match.null THEN Returned(<< <<b, top>> >>, "nomatch", FALSE)
      ELSE LET st == MatchFuriganaLoop(b, 1, LoopInit, match)
           IN Returned(Append(st.result, <<st.curBodyPart, st.curToptextPart>>),
                       "match", st.undefinedRead)

MatchFurigana(b, top, opts) ==
  IF top # <<>> /\ top[1] \in {EQUALS, FW_EQUALS}
    THEN Returned(<< <<b, Tail(top)>> >>, "disabled", FALSE)
  ELSE LET bodyRegex == BodyToRegex(b) IN
    IF bodyRegex.null THEN Returned(<< <<b, top>> >>, "nopattern", FALSE)
    ELSE IF bodyRegex.syntaxError THEN Thrown("SyntaxError")
    ELSE LET match == RegExpExec(bodyRegex, CleanFurigana(top, opts)) IN
      IF match.null THEN Returned(<< <<b, top>> >>, "nomatch", FALSE)
      ELSE LET st == MatchFuriganaLoop(b, 1, LoopInit, match)
           IN Returned(Append(st.result, <<st.curBodyPart, st.curToptextPart>>),
                       "match", st.undefinedRead)

----------------------------------------------------------------------------
(* rubifyEveryCharacter and furigana.                                      *)

RubifyEveryCharacter(b, top) ==
  LET topmark == IF Tail(top) = <<>> THEN <<BLACK_CIRCLE>> ELSE Tail(top)
  IN Returned([k \in 1..Len(b) |-> << <<b[k]>>, topmark >>], "emphasis", FALSE)

\* The indicator with the ASCII asterisk only.
EmphasisDotsIndicatorAscii(top) ==
  top # <<>> /\ top[1] = ASTERISK

\* emphasisDotsIndicatorRegex.test(toptext), the regex being /^[*＊].?/
EmphasisDotsIndicator(top) ==
  top # <<>> /\ top[1] \in {ASTERISK, FW_ASTERISK}

Furigana(b, top, opts) ==
  IF EmphasisDotsIndicator(top)
    THEN RubifyEveryCharacter(b, top)
    ELSE MatchFurigana(b, top, opts)

----------------------------------------------------------------------------
(* The calls checked: every body and reading over small alphabets, and the *)
(* examples of the documentation.                                          *)

MaxBodyLen == 3
MaxReadingLen == 3

INU == 29356
HIRAGANA_I == 12356
HIRAGANA_KA == 12363

\* 犬 (logographic), い (phonetic), ( (other)
BodyAlphabet == {INU, HIRAGANA_I, LPAREN}

\* い か . + ・
ReadingAlphabet == {HIRAGANA_I, HIRAGANA_KA, DOT, PLUS, MIDDLE_DOT}

Markers == {EQUALS, FW_EQUALS, ASTERISK, FW_ASTERISK}

StringsUpTo(alphabet, n) == UNION {[1..k -> alphabet] : k \in 0..n}

\* A reading: an optional leading marker, then up to MaxReadingLen characters.
Readings ==
  LET rest == StringsUpTo(ReadingAlphabet, MaxReadingLen)
  IN rest \cup {<<m>> \o r : m \in Markers, r \in rest}

NoExtras == [extraSeparators |-> <<>>, extraCombinators |-> <<>>]

Call(b, top, args) == [body |-> b, toptext |-> top, wanted |-> args]

KawaiiInu == <<21487, 24859, 12356, 29356>>                 \* 可愛い犬
KaWaiIInu ==                                                \* か・わい・い・いぬ
  <<12363, 12539, 12431, 12356, 12539, 12356, 12539, 12356, 12396>>
KaPlusWaiIInu ==                                            \* か+わい・い・いぬ
  <<12363, 43, 12431, 12356, 12539, 12356, 12539, 12356, 12396>>
Kawaiiinu == <<12363, 12431, 12356, 12356, 12356, 12396>>   \* かわいいいぬ
OishiiGohan == <<32654, 21619, 12375, 12356, 12372, 39151>> \* 美味しいご飯
Oishiigohan ==                                              \* おいしいごはん
  <<12362, 12356, 12375, 12356, 12372, 12399, 12435>>
Oishii == <<32654, 21619, 12375, 12356>>                    \* 美味しい
OishiDotI == <<12362, 12356, 12375, 12539, 12356>>          \* おいし・い
Taberu == <<39135, 12409, 12427>>                           \* 食べる
Tabebe == <<12383, 12409, 12409>>                           \* たべべ
EqTaberu == <<65309, 12383, 12409, 12427>>                  \* ＝たべる
Dakara == <<12384, 12363, 12425>>                           \* だから
Kawai == <<21487, 24859>>                                   \* 可愛
KaUnderscoreWai == <<12363, 95, 12431, 12356>>              \* か_わい
KaDotWai == <<12363, 46, 12431, 12356>>                     \* か.わい
KaHyphenWai == <<12363, 45, 12431, 12356>>                  \* か-わい
KaPlusWai == <<12363, 43, 12431, 12356>>                    \* か+わい

WantUnderscore == [extraSeparators |-> <<UNDERSCORE>>, extraCombinators |-> <<>>]
WantHyphen == [extraSeparators |-> <<>>, extraCombinators |-> <<HYPHEN>>]

Examples ==
  { Call(KawaiiInu, KaWaiIInu, NoExtras),
    Call(KawaiiInu, KaPlusWaiIInu, NoExtras),
    Call(KawaiiInu, Kawaiiinu, NoExtras),
    Call(OishiiGohan, Oishiigohan, NoExtras),
    Call(Oishii, OishiDotI, NoExtras),
    Call(Taberu, Tabebe, NoExtras),
    Call(Taberu, EqTaberu, NoExtras),
    Call(Dakara, <<ASTERISK>>, NoExtras),
    Call(Dakara, <<ASTERISK, PLUS>>, NoExtras),
    Call(Kawai, KaUnderscoreWai, WantUnderscore),
    Call(Kawai, KaDotWai, WantUnderscore),
    Call(Kawai, KaHyphenWai, WantHyphen),
    Call(Kawai, KaPlusWai, WantHyphen),
    Call(<<INU, INU, INU>>,
         <<HIRAGANA_I, DOT, HIRAGANA_KA, PLUS, HIRAGANA_I>>, NoExtras),
    Call(<<INU, INU, LPAREN>>,
         <<HIRAGANA_I, MIDDLE_DOT, HIRAGANA_KA, DOT>>, NoExtras) }

Bodies == StringsUpTo(BodyAlphabet, MaxBodyLen)

----------------------------------------------------------------------------
(* The state machine: a call of furigana(body, toptext, options) with      *)
(* options = new FuriganaOptions(), and its return.                        *)

NotReturned ==
  [pairs |-> <<>>, threw |-> "", via |-> "", undefinedRead |-> FALSE]

Init ==
  /\ \/ /\ body \in Bodies
        /\ toptext \in Readings
        /\ wanted = NoExtras
     \/ \E call \in Examples :
          /\ body = call.body
          /\ toptext = call.toptext
          /\ wanted = call.wanted
  /\ options = NewFuriganaOptions(wanted)
  /\ pc = "call"
  /\ out = NotReturned

\* furigana returns rubifyEveryCharacter(body, toptext)
FuriganaEmphasis ==
  /\ pc = "call"
  /\ EmphasisDotsIndicator(toptext)
  /\ out' = Furigana(body, toptext, options)
  /\ pc' = "done"
  /\ UNCHANGED <<body, toptext, wanted, options>>

\* furigana returns matchFurigana(body, toptext, options), which returns at
\* its first return statement
FuriganaDisabled ==
  /\ pc = "call"
  /\ ~EmphasisDotsIndicator(toptext)
  /\ LET r == Furigana(body, toptext, options)
     IN r.via = "disabled" /\ out' = r
  /\ pc' = "done"
  /\ UNCHANGED <<body, toptext, wanted, options>>

\* ... which returns [[body, toptext]]: no pattern, or no match
FuriganaNoMatch ==
  /\ pc = "call"
  /\ ~EmphasisDotsIndicator(toptext)
  /\ LET r == Furigana(body, toptext, options)
     IN r.via \in {"nopattern", "nomatch"} /\ out' = r
  /\ pc' = "done"
  /\ UNCHANGED <<body, toptext, wanted, options>>

\* ... which matches the pattern of the body and reconstructs the pairs (or
\* new RegExp throws)
FuriganaMatch ==
  /\ pc = "call"
  /\ ~EmphasisDotsIndicator(toptext)
  /\ LET r == Furigana(body, toptext, options)
     IN r.via \in {"match", "throw"} /\ out' = r
  /\ pc' = "done"
  /\ UNCHANGED <<body, toptext, wanted, options>>

Next ==
  \/ FuriganaEmphasis
  \/ FuriganaDisabled
  \/ FuriganaNoMatch
  \/ FuriganaMatch

Spec == Init /\ [][Next]_vars

----------------------------------------------------------------------------
(* Properties.                                                             *)

Done == pc = "done"

RECURSIVE ConcatBases(_)
ConcatBases(pairs) ==
  IF pairs = <<>> THEN <<>> ELSE Head(pairs)[1] \o ConcatBases(Tail(pairs))

StartsWith(top, set) == Len(top) >= 1 /\ top[1] \in set

AfterFirst(top) == SubSeq(top, 2, Len(top))

HasKanji(b) == \E k \in 1..Len(b) : IsKanji(b[k])
HasKana(b) == \E k \in 1..Len(b) : IsKana(b[k])
HasOther(b) == \E k \in 1..Len(b) : ~IsKanji(b[k]) /\ ~IsKana(b[k])

\* The match of the pattern of the body against the cleaned reading.
TheMatch == RegExpExec(BodyToRegex(body), CleanFurigana(toptext, options))

PatternMode == ~StartsWith(toptext, Markers)

\* C1: in every mode, the base segments of the returned pairs, concatenated
\* in order, are exactly the body.
C1_BasesGiveBody ==
  Done /\ out.threw = "" => ConcatBases(out.pairs) = body

\* C1 witness: a successful match of a body with all three classes of
\* characters, returned as three pairs or more.
C1_Witness ==
  /\ Done /\ out.via = "match" /\ Len(out.pairs) >= 3
  /\ HasKanji(body) /\ HasKana(body) /\ HasOther(body)

\* C2: without a leading marker, when the pattern of the body does not match
\* the whole cleaned reading, the result is the single pair (body, reading)
\* with the reading as supplied.
C2_NoMatchFallback ==
  Done /\ PatternMode /\ TheMatch.null
    => out.threw = "" /\ out.pairs = << <<body, toptext>> >>

\* C2 witness: no match, for a reading that cleaning would have changed.
C2_Witness ==
  /\ Done /\ PatternMode /\ TheMatch.null
  /\ HasKanji(body)
  /\ CleanFurigana(toptext, options) # toptext

\* C3 as stated: 可愛い犬 with か・わい・い・いぬ gives (可,か) (愛,わい) (い,い)
\* (犬,いぬ).
C3_AsStated ==
  Done /\ body = KawaiiInu /\ toptext = KaWaiIInu
    => out.pairs = << << <<21487>>, <<12363>> >>,
                      << <<24859>>, <<12431, 12356>> >>,
                      << <<12356>>, <<12356>> >>,
                      << <<29356>>, <<12356, 12396>> >> >>

\* C3 amended: 可愛い犬 with か・わい・い・いぬ gives (可,か) (愛,わい) (い,"")
\* (犬,いぬ): the pair of the phonetic character has an empty reading.
C3_KanaPairHasNoReading ==
  Done /\ body = KawaiiInu /\ toptext = KaWaiIInu
    => out.pairs = << << <<21487>>, <<12363>> >>,
                      << <<24859>>, <<12431, 12356>> >>,
                      << <<12356>>, <<>> >>,
                      << <<29356>>, <<12356, 12396>> >> >>

\* C3 witness: that call has returned from a successful match.
C3_Witness ==
  Done /\ body = KawaiiInu /\ toptext = KaWaiIInu /\ out.via = "match"

\* The reading with every wanted extra separator written '.' and every
\* wanted extra combinator written '+'.
Canonical(top, args) ==
  [k \in 1..Len(top) |->
     IF \E x \in 1..Len(args.extraSeparators) : args.extraSeparators[x] = top[k]
       THEN DOT
     ELSE IF \E x \in 1..Len(args.extraCombinators) :
               args.extraCombinators[x] = top[k]
       THEN PLUS
     ELSE top[k]]

\* C4: with options built for an extra separator (combinator), a reading
\* using it gives the pairs of the same reading with '.' ('+') in its place.
C4_ExtraMarksAccepted ==
  Done => out.pairs = Furigana(body, Canonical(toptext, wanted), options).pairs

\* C5: with a leading '*' or '＊' there is one pair per character of the
\* body, in order, each (character, mark), the mark being the rest of the
\* reading, or '●' when nothing follows.
C5_EmphasisEveryCharacter ==
  Done /\ StartsWith(toptext, {ASTERISK, FW_ASTERISK})
    => LET mark == IF Len(toptext) = 1 THEN <<BLACK_CIRCLE>>
                   ELSE AfterFirst(toptext)
       IN /\ out.threw = ""
          /\ Len(out.pairs) = Len(body)
          /\ \A k \in 1..Len(body) : out.pairs[k] = << <<body[k]>>, mark >>

\* C5 witness: a full-width asterisk and a mark, on a body of all three
\* classes which the rest of the reading does not match as a pattern.
C5_Witness ==
  /\ Done /\ StartsWith(toptext, {FW_ASTERISK}) /\ Len(toptext) >= 2
  /\ HasKanji(body) /\ HasKana(body) /\ HasOther(body)
  /\ RegExpExec(BodyToRegex(body),
                CleanFurigana(AfterFirst(toptext), options)).null

\* C6: with a leading '=' or '＝' the result is the single pair (body,
\* reading without its first character), the rest being left as it is.
C6_DisabledMatching ==
  Done /\ StartsWith(toptext, {EQUALS, FW_EQUALS})
    => out.threw = "" /\ out.pairs = << <<body, AfterFirst(toptext)>> >>

\* C6 witness: a disabled call whose body matches the rest of the reading,
\* which cleaning would have changed.
C6_Witness ==
  /\ Done /\ StartsWith(toptext, {EQUALS, FW_EQUALS})
  /\ HasKanji(body)
  /\ ~RegExpExec(BodyToRegex(body),
                 CleanFurigana(AfterFirst(toptext), options)).null
  /\ CleanFurigana(AfterFirst(toptext), options) # AfterFirst(toptext)

IsString(x) == \A k \in 1..Len(x) : x[k] >= 0

\* C7: a call never throws: the pattern is built, every group read is
\* defined, and a sequence of pairs of strings is returned.
C7_NeverThrows ==
  /\ ~BodyToRegex(body).syntaxError
  /\ pc = "call" =>
       Furigana(body, toptext, options).via
         \in {"emphasis", "disabled", "nopattern", "nomatch", "match"}
  /\ Done =>
       /\ out.threw = ""
       /\ ~out.undefinedRead
       /\ \A k \in 1..Len(out.pairs) :
            /\ Len(out.pairs[k]) = 2
            /\ IsString(out.pairs[k][1])
            /\ IsString(out.pairs[k][2])

\* C7 witness: a successful match on a body with a parenthesis, where the
\* group between two adjacent kanji has been read.
C7_Witness ==
  /\ Done /\ out.via = "match" /\ HasOther(body)
  /\ \E k \in 2..Len(body) : IsKanji(body[k - 1]) /\ IsKanji(body[k])

----------------------------------------------------------------------------
(* Where the reading lines up with the body.  bodyToRegex appends the      *)
(* pieces of body[i] after those of body[1..i-1], so the pieces of body[i] *)
(* are those the pattern of body[1..i] has more than that of body[1..i-1]; *)
(* the portion of body[i] is what these pieces consumed in the match.      *)

IsOther(c) == ~IsKanji(c) /\ ~IsKana(c)

Cleaned == CleanFurigana(toptext, options)

IsMark(c) == c \in {DOT, PLUS}

PiecesUpTo(i) ==
  Len(BodyToRegexLoop(SubSeq(body, 1, i), 1, BodyToRegexInit).regexStr)

RECURSIVE ConsumedBefore(_, _)
ConsumedBefore(parts, e) ==
  IF e <= 1 THEN 0 ELSE Len(parts[e - 1]) + ConsumedBefore(parts, e - 1)

\* First and last position of the cleaned reading in the portion of body[i]
\* (last < first when the portion is empty).
PortionFirst(i) == 1 + ConsumedBefore(TheMatch.parts, PiecesUpTo(i - 1) + 1)
PortionLast(i) == ConsumedBefore(TheMatch.parts, PiecesUpTo(i) + 1)

InsertAt(str, pos, c) ==
  SubSeq(str, 1, pos - 1) \o <<c>> \o SubSeq(str, pos, Len(str))

\* body[i-1] and body[i]: a logographic character next to a logographic or
\* phonetic one.
KanjiBoundary(i) ==
  /\ i >= 2
  /\ IsKanji(body[i - 1]) \/ IsKanji(body[i])
  /\ ~IsOther(body[i - 1]) /\ ~IsOther(body[i])

\* body[i-1] and body[i]: from a logographic or phonetic character to an
\* Other character.
OtherTransition(i) == i >= 2 /\ ~IsOther(body[i - 1]) /\ IsOther(body[i])

Matched == Done /\ PatternMode /\ ~TheMatch.null

\* In a match that took no mark at a transition to an Other character, the
\* reading with one of `marks` put there gives the same pairs.
StrayMarkAbsorbed(marks) ==
  Matched =>
    \A i \in 2..Len(body) :
      OtherTransition(i) /\ PortionLast(i) < PortionFirst(i) =>
        \A m \in marks :
          Furigana(body, InsertAt(toptext, PortionFirst(i), m), options).pairs
            = out.pairs

\* C8: at a transition to an Other character the pattern accepts one stray
\* mark, '.' or '+': the reading with the mark gives the same pairs.
C8_StrayMarkAtOther == StrayMarkAbsorbed({DOT, PLUS})

\* The part of C8 the code has: a stray '.' there gives the same pairs.
C8_StrayDotAtOther == StrayMarkAbsorbed({DOT})

\* Number of body characters among body[1..i] that read a group, and the
\* index in the match array of the reading group of the kanji body[i]: one
\* group per kanji, one more per kanji that follows a kanji.
ReadingGroup(i) ==
  Cardinality({k \in 1..i : IsKanji(body[k])})
    + Cardinality({k \in 2..i : IsKanji(body[k - 1]) /\ IsKanji(body[k])})

RECURSIVE BasesLen(_, _)
BasesLen(pairs, n) ==
  IF n = 0 THEN 0 ELSE Len(pairs[n][1]) + BasesLen(pairs, n - 1)

\* The pair whose base segment holds body[i].
PairOf(i) ==
  CHOOSE n \in 1..Len(out.pairs) :
    BasesLen(out.pairs, n - 1) < i /\ i <= BasesLen(out.pairs, n)

\* The captured readings of body[from..to], all kanji, concatenated.
RECURSIVE Readings_(_, _)
Readings_(from, to) ==
  IF from > to THEN <<>>
  ELSE TheMatch.groups[ReadingGroup(from)] \o Readings_(from + 1, to)

\* C9: in a match, two adjacent kanji with '.' between their readings are in
\* two consecutive pairs, with '+' or nothing in the same pair; the reading
\* of a pair of kanji is its kanji's captured readings, concatenated.
C9_SeparatorSplitsCombinatorMerges ==
  Matched =>
    /\ \A i \in 2..Len(body) :
         IsKanji(body[i - 1]) /\ IsKanji(body[i]) =>
           LET connection == TheMatch.groups[ReadingGroup(i) - 1]
           IN /\ connection = <<DOT>> => PairOf(i) = PairOf(i - 1) + 1
              /\ connection \in {<<PLUS>>, <<>>} => PairOf(i) = PairOf(i - 1)
    /\ \A n \in 1..Len(out.pairs) :
         LET from == BasesLen(out.pairs, n - 1) + 1
             to == BasesLen(out.pairs, n)
         IN from <= to /\ IsKanji(body[from]) =>
              out.pairs[n][2] = Readings_(from, to)

\* C9 witness: a match of three kanji in a row, with '.' after the reading
\* of the first and '+' after that of the second, returned as two pairs.
C9_Witness ==
  /\ Matched
  /\ Len(body) = 3
  /\ \A k \in 1..3 : IsKanji(body[k])
  /\ TheMatch.groups[2] = <<DOT>>
  /\ TheMatch.groups[4] = <<PLUS>>
  /\ Len(out.pairs) = 2

\* Every mark of the cleaned reading is the first character of the portion
\* of a body character that makes, with the one before, a boundary of one of
\* the kinds `other` allows besides those between kanji and kanji or kana.
MarksOnlyAtBoundaries(otherToo) ==
  Matched =>
    \A q \in 1..Len(Cleaned) :
      IsMark(Cleaned[q]) =>
        \E i \in 2..Len(body) :
          /\ PortionFirst(i) = q
          /\ PortionLast(i) >= q
          /\ \/ KanjiBoundary(i)
             \/ otherToo /\ OtherTransition(i) /\ Cleaned[q] = DOT

\* A mark in one of the places the claim lists makes furigana return the
\* pair (body, reading): at the start of the reading, right after another
\* mark, anywhere when the body is phonetic throughout or is one kanji; and
\* 美味しい with おいし・い.
MisplacedMarkFallsBack ==
  Done /\ PatternMode =>
    LET misplaced ==
          \/ Len(Cleaned) >= 1 /\ IsMark(Cleaned[1])
          \/ \E q \in 2..Len(Cleaned) : IsMark(Cleaned[q - 1]) /\ IsMark(Cleaned[q])
          \/ /\ \E q \in 1..Len(Cleaned) : IsMark(Cleaned[q])
             /\ \/ \A k \in 1..Len(body) : IsKana(body[k])
                \/ Len(body) = 1 /\ IsKanji(body[1])
          \/ body = Oishii /\ toptext = OishiDotI
    IN misplaced => out.pairs = << <<body, toptext>> >>

----------------------------------------------------------------------------
(* Alignments: every way the pieces re[p..] can consume s[j..], whatever   *)
(* the order in which a matcher tries them.                                *)

RECURSIVE Alignments(_, _, _, _)
Alignments(re, p, s, j) ==
  IF p > Len(re) THEN {<<>>}
  ELSE LET t == re[p].t
           texts ==
             CASE t = "^" -> IF j = 1 THEN {<<>>} ELSE {}
               [] t = "$" -> IF j = Len(s) + 1 THEN {<<>>} ELSE {}
               [] t = "lit" ->
                    IF j <= Len(s) /\ s[j] = re[p].c THEN {<<s[j]>>} ELSE {}
               [] t = "([^+.]+)" ->
                    {SubSeq(s, j, j + n - 1) : n \in
                       {m \in 1..(Len(s) - j + 1) :
                          \A q \in j..(j + m - 1) : ~IsMark(s[q])}}
               [] OTHER ->
                    {<<>>} \cup (IF j <= Len(s) /\ s[j] \in Accepts(t)
                                   THEN {<<s[j]>>} ELSE {})
       IN UNION {{<<x>> \o r : r \in Alignments(re, p + 1, s, j + Len(x))} :
                   x \in texts}

TheAlignments == Alignments(BodyToRegex(body).source, 1, Cleaned, 1)

\* The pieces of the pattern of body that capture a reading.
ReadingSlots ==
  {p \in 1..Len(BodyToRegex(body).source) :
     BodyToRegex(body).source[p].t = "([^+.]+)"}

\* C11: the alignment used by a match is the leftmost-greedy one: it is an
\* alignment of the cleaned reading, and any other alignment gives a shorter
\* reading to the first reading slot where the two differ; 可愛い犬 with
\* かわいいいぬ gives 可愛 reading かわいい, then い, then 犬 reading ぬ.
C11_LeftmostGreedy ==
  /\ Matched =>
       /\ TheMatch.parts \in TheAlignments
       /\ \A a \in TheAlignments \ {TheMatch.parts} :
            \E p \in ReadingSlots :
              /\ Len(a[p]) < Len(TheMatch.parts[p])
              /\ \A q \in ReadingSlots : q < p => a[q] = TheMatch.parts[q]
  /\ Done /\ body = KawaiiInu /\ toptext = Kawaiiinu =>
       out.pairs = << <<Kawai, SubSeq(Kawaiiinu, 1, 4)>>,
                      <<<<HIRAGANA_I>>, <<>>>>,
                      <<<<INU>>, <<12396>>>> >>

\* C11 witness: a match of a reading that has several alignments, in which
\* a later slot could have taken more had the first slot taken less.
C11_Witness ==
  /\ Matched
  /\ \E a \in TheAlignments : \E p, q \in ReadingSlots :
       /\ p < q
       /\ Len(a[p]) < Len(TheMatch.parts[p])
       /\ Len(a[q]) > Len(TheMatch.parts[q])

----------------------------------------------------------------------------
(* The cursor of the reconstruction loop against the groups of the pattern *)

\* The loop variables after the iterations on body[1..i].
LoopUpTo(i) == MatchFuriganaLoop(SubSeq(body, 1, i), 1, LoopInit, TheMatch)

\* The reads made by the iteration on body[i].
ReadsAt(i) ==
  SubSeq(LoopUpTo(i).reads, Len(LoopUpTo(i - 1).reads) + 1,
         Len(LoopUpTo(i).reads))

\* The piece of the pattern that is capturing group number k, the role
\* bodyToRegex emitted it in, and the body character it was emitted for.
GroupPiece(k) ==
  LET src == BodyToRegex(body).source
  IN CHOOSE p \in 1..Len(src) :
       /\ IsGroup(src[p])
       /\ Cardinality({q \in 1..p : IsGroup(src[q])}) = k

EmittedAs(p) ==
  IF BodyToRegex(body).source[p].t = "([^+.]+)" THEN "furi" ELSE "connection"

EmittedFor(p) ==
  CHOOSE i \in 1..Len(body) : PiecesUpTo(i - 1) < p /\ p <= PiecesUpTo(i)

\* C12: in a match the loop reads match[1], match[2], ... in this order,
\* each group once, in the role and at the body character bodyToRegex
\* emitted it for: a kanji after a non-kanji or at the start reads one
\* reading, a kanji after a kanji a boundary then a reading, a non-kanji
\* nothing; the cursor ends just after the last group and no read is past
\* it.
C12_CursorFollowsGroups ==
  Matched =>
    LET reads == LoopUpTo(Len(body)).reads
        last == Len(TheMatch.groups)
    IN /\ Len(reads) = last
       /\ LoopUpTo(Len(body)).matchIndex = last + 1
       /\ ~LoopUpTo(Len(body)).undefinedRead /\ ~out.undefinedRead
       /\ \A n \in 1..Len(reads) :
            /\ reads[n].k = n
            /\ reads[n].as = EmittedAs(GroupPiece(n))
            /\ n > Len(LoopUpTo(EmittedFor(GroupPiece(n)) - 1).reads)
            /\ n <= Len(LoopUpTo(EmittedFor(GroupPiece(n))).reads)
       /\ \A i \in 1..Len(body) :
            LET roles == [n \in 1..Len(ReadsAt(i)) |-> ReadsAt(i)[n].as]
            IN roles = IF ~IsKanji(body[i]) THEN <<>>
                       ELSE IF i = 1 \/ ~IsKanji(body[i - 1])
                         THEN <<"furi">>
                         ELSE <<"connection", "furi">>

\* C12 witness: a match of a body with a non-kanji character, a kanji after
\* it and a kanji after a kanji, whose three groups have all been read.
C12_Witness ==
  /\ Matched
  /\ Len(body) = 3
  /\ ~IsKanji(body[1]) /\ IsKanji(body[2]) /\ IsKanji(body[3])
  /\ Len(LoopUpTo(3).reads) = 3

----------------------------------------------------------------------------
\* C13: in a match no pair has kanji and non-kanji characters together; a
\* pair with a non-kanji character has an empty reading, so every Other
\* character of the body is in a pair of kana and Other characters without
\* reading, and only pairs of kanji have a reading; the pieces emitted for
\* an Other character consume no character of the reading but a '.'.
C13_NoMixedPairs ==
  Matched =>
    /\ ConcatBases(out.pairs) = body
    /\ \A n \in 1..Len(out.pairs) :
         LET base == out.pairs[n][1]
             reading == out.pairs[n][2]
         IN /\ \/ \A k \in 1..Len(base) : IsKanji(base[k])
               \/ \A k \in 1..Len(base) : ~IsKanji(base[k])
            /\ (\E k \in 1..Len(base) : ~IsKanji(base[k])) => reading = <<>>
            /\ reading # <<>> =>
                 base # <<>> /\ \A k \in 1..Len(base) : IsKanji(base[k])
    /\ \A i \in 1..Len(body) :
         IsOther(body[i]) =>
           /\ out.pairs[PairOf(i)][2] = <<>>
           /\ \A k \in 1..Len(out.pairs[PairOf(i)][1]) :
                ~IsKanji(out.pairs[PairOf(i)][1][k])
           /\ \A p \in (PiecesUpTo(i - 1) + 1)..PiecesUpTo(i) :
                BodyToRegex(body).source[p].t = "\\.?"
           /\ \A j \in PortionFirst(i)..PortionLast(i) : Cleaned[j] = DOT

\* C13 witness: a match of a body with a kanji and, after it, an Other
\* character, returned as a pair with a reading and a pair without.
C13_Witness ==
  /\ Matched
  /\ \E i \in 2..Len(body) : IsKanji(body[i - 1]) /\ IsOther(body[i])
  /\ \E n \in 1..Len(out.pairs) : out.pairs[n][2] # <<>>
  /\ \E n \in 1..Len(out.pairs) :
       out.pairs[n][2] = <<>> /\ out.pairs[n][1] # <<>>

----------------------------------------------------------------------------
\* str without its '.' and '+'.
WithoutMarks(str) == SelectSeq(str, LAMBDA c : ~IsMark(c))

\* What the pairs up to the n-th account for of the reading: the reading
\* segment of a pair of kanji, the kana of the base of any other pair.
RECURSIVE ReadingOf(_, _)
ReadingOf(pairs, n) ==
  IF n = 0 THEN <<>>
  ELSE ReadingOf(pairs, n - 1) \o
         (IF pairs[n][1] # <<>> /\ IsKanji(pairs[n][1][1])
            THEN pairs[n][2]
            ELSE SelectSeq(pairs[n][1], IsKana))

\* C14: in a match no reading segment has a '.' or a '+', a pair of k kanji
\* has a reading of at least k characters, and the pairs in order account
\* for the cleaned reading without its '.' and '+', no more and no less.
C14_ReadingConserved ==
  Matched =>
    /\ \A n \in 1..Len(out.pairs) :
         LET base == out.pairs[n][1]
             reading == out.pairs[n][2]
         IN /\ \A k \in 1..Len(reading) : ~IsMark(reading[k])
            /\ (base # <<>> /\ \A k \in 1..Len(base) : IsKanji(base[k])) =>
                 Len(reading) >= Len(base)
    /\ ReadingOf(out.pairs, Len(out.pairs)) = WithoutMarks(Cleaned)

\* C14 witness: a match of a body of kanji and kana with a reading that has
\* a mark, returned as pairs with a reading and a pair without.
C14_Witness ==
  /\ Matched
  /\ HasKanji(body) /\ HasKana(body)
  /\ \E j \in 1..Len(Cleaned) : IsMark(Cleaned[j])
  /\ \E n \in 1..Len(out.pairs) : Len(out.pairs[n][2]) >= 2

====
